---- MODULE Spec2Model ----
(***************************************************************************)
(* A model of httption's BaseAction: the option mutators, Setup, Do,       *)
(* Repeat, the single dispatch attempt do(), and the response              *)
(* classification handleResponse.                                          *)
(*                                                                         *)
(* A Go pointer or slice that may be nil is a sequence of length at most   *)
(* one: None is nil, Some(x) is a non-nil value x.  A Go error is a string,*)
(* "nil" being the nil error.                                              *)
(***************************************************************************)
EXTENDS Integers, Sequences, FiniteSets, TLC

None == << >>
Some(x) == << x >>
NoErr == "nil"

\* ---------------------------------------------------------------- bounds
MaxCalls == 2
MaxRetryArg == 2
MaxOpts == 2

\* ------------------------------------------------------ program constants
StatusBadRequest == 400
StatusTooManyRequests == 429
CodeInvalidPayment == 100008
CodeNeedEmailAuthorize == 100056

ErrInvalidPayment == "Invalid payment"
ErrNeedEmailAuthorize == "This client needs to be authorized for purchases"
ErrTooManyRequests == "Too many requests"
ErrEmptyRequest == "action request is empty"
ErrBadRequest == "BadRequest"
ErrBadRequestNoBody == "BadRequest noBody"
ErrStatusHandler == "resp.statusHandler"
ErrStatusNotOk == "status is not ok"
ErrSetupProxy == "cannot set proxy because transport has unknown type"
ErrNewRequest == "http.NewRequest error"
ErrTransport == "client.Do error"
ErrReadAll == "io.ReadAll error"
ErrUnmarshal == "json.Unmarshal error"
Panic == "panic: assignment to entry in nil map"

ContentTypeJSON == "application/json"
ContentTypeText == "text/plain"

\* ------------------------------------------------------------ input sets
GoodURL == "http://localhost:4488/api/proxy"
BadURL == ":"
URLs == {GoodURL, BadURL}
Transports == {"*http.Transport", "nil"}

BodyEmpty == ""
BodyCode8 == "{\"code\":100008}"
BodyCode56 == "{\"code\":100056}"
BodyMessage == "{\"message\":\"Invalid payment\"}"
BodyOther == "{\"status\":\"x\"}"
BodyGarbage == "<html>"

NoHeaders == [k \in {} |-> "a"]
HeadersA == [k \in {"Accept"} |-> "a"]
HeadersB == [k \in {"Accept", "Token"} |-> "b"]

mergedMapsFirstWins(m1, m2) ==
    [k \in (DOMAIN m1) \cup (DOMAIN m2) |-> IF k \in DOMAIN m1 THEN m1[k] ELSE m2[k]]

\* mergedMaps: later maps overwrite earlier ones key by key.
mergedMaps(m1, m2) ==
    [k \in (DOMAIN m1) \cup (DOMAIN m2) |-> IF k \in DOMAIN m2 THEN m2[k] ELSE m1[k]]

\* ---------------------------------------------------------------- JSON
\* encoding/json decodes into map[string]any: every JSON number becomes a
\* float64, every JSON string a string.
F64(n) == [type |-> "float64", val |-> n]
Str(s) == [type |-> "string", str |-> s]
NoFields == [k \in {} |-> F64(0)]

Unmarshal(body) ==
    CASE body = BodyCode8 -> [err |-> NoErr, data |-> [k \in {"code"} |-> F64(CodeInvalidPayment)]]
      [] body = BodyCode56 -> [err |-> NoErr, data |-> [k \in {"code"} |-> F64(CodeNeedEmailAuthorize)]]
      [] body = BodyMessage -> [err |-> NoErr, data |-> [k \in {"message"} |-> Str(ErrInvalidPayment)]]
      [] body = BodyOther -> [err |-> NoErr, data |-> [k \in {"status"} |-> Str("x")]]
      [] OTHER -> [err |-> ErrUnmarshal, data |-> NoFields]

\* respData["code"].(int): the value when its dynamic type is int, else 0.
AssertInt(data, key) ==
    IF key \in DOMAIN data /\ data[key].type = "int" THEN data[key].val ELSE 0

\* respData["message"].(string): ok only for a string value.
AssertString(data, key) ==
    IF key \in DOMAIN data /\ data[key].type = "string"
    THEN [ok |-> TRUE, str |-> data[key].str]
    ELSE [ok |-> FALSE, str |-> ""]

\* A read that gives a nil slice for an empty body.
ReadAllNilWhenEmpty(resp) == IF resp.body = BodyEmpty THEN None ELSE Some(resp.body)

\* io.ReadAll(resp.Body) returns a non-nil slice, of length 0 for an empty body.
ReadAll(resp) == Some(resp.body)

\* ------------------------------------------------------- handleResponse
handleResponse(resp, respBody) ==
    IF resp.status = StatusTooManyRequests THEN ErrTooManyRequests
    ELSE IF resp.status = StatusBadRequest THEN
        IF respBody # None THEN
            IF resp.ctype = ContentTypeJSON THEN
                LET u == Unmarshal(respBody[1])
                    code == AssertInt(u.data, "code")
                    msg == AssertString(u.data, "message")
                IN  IF u.err # NoErr THEN u.err
                    ELSE IF code = CodeInvalidPayment THEN ErrInvalidPayment
                    ELSE IF code = CodeNeedEmailAuthorize THEN ErrNeedEmailAuthorize
                    ELSE IF msg.ok /\ msg.str = ErrInvalidPayment THEN ErrInvalidPayment
                    ELSE ErrBadRequest
            ELSE ErrBadRequest
        ELSE ErrBadRequestNoBody
    ELSE IF ~(resp.status >= 200 /\ resp.status < 300) THEN ErrStatusNotOk
    ELSE NoErr

\* ------------------------------------------------------------- options
\* An Option value: the constructor's name and its arguments.
MkOpt(op) ==
    [op |-> op, maxRetry |-> None, needRetry |-> None, retryDelay |-> None,
     headers |-> NoHeaders, body |-> None, code |-> 0, veto |-> FALSE]

WithHeadersOpt(h) == [MkOpt("WithHeaders") EXCEPT !.headers = h]
WithAppendHeadersOpt(h) == [MkOpt("WithAppendHeaders") EXCEPT !.headers = h]
WithPrependHeadersOpt(h) == [MkOpt("WithPrependHeaders") EXCEPT !.headers = h]
WithProxyURLOpt == MkOpt("WithProxyURL")
WithBodyStringOpt(s) == [MkOpt("WithBodyString") EXCEPT !.body = Some(s)]
WithBodyBytesOpt(b) == [MkOpt("WithBodyBytes") EXCEPT !.body = b]
WithRetryOpt(m, n, d) ==
    [MkOpt("WithRetry") EXCEPT !.maxRetry = m, !.needRetry = n, !.retryDelay = d]
WithMaxRetryOpt(m) == [MkOpt("WithMaxRetry") EXCEPT !.maxRetry = Some(m)]
WithNeedRetryOpt(n) == [MkOpt("WithNeedRetry") EXCEPT !.needRetry = Some(n)]
WithRetryDelayOpt(d) == [MkOpt("WithRetryDelay") EXCEPT !.retryDelay = Some(d)]
WithStatusCodeHandlerOpt(c, v) ==
    [MkOpt("WithStatusCodeHandler") EXCEPT !.code = c, !.veto = v]

\* SetupProxyURL: only a *http.Transport can take the proxy.
SetupProxyURL(b) ==
    IF b.client = "*http.Transport" THEN NoErr ELSE ErrSetupProxy

WithHeaders(b, o) == [ba |-> [b EXCEPT !.headers = o.headers], err |-> NoErr]
WithAppendHeaders(b, o) ==
    [ba |-> [b EXCEPT !.headers = mergedMaps(b.headers, o.headers)], err |-> NoErr]
WithPrependHeaders(b, o) ==
    [ba |-> [b EXCEPT !.headers = mergedMaps(o.headers, b.headers)], err |-> NoErr]
WithProxyURL(b, o) == [ba |-> b, err |-> SetupProxyURL(b)]
WithBodyString(b, o) == [ba |-> [b EXCEPT !.requestBodyBuffer = o.body], err |-> NoErr]
WithBodyBytes(b, o) == [ba |-> [b EXCEPT !.requestBodyBuffer = o.body], err |-> NoErr]
WithRetryZeroing(b, o) ==
    [ba |-> [b EXCEPT
        !.maxRetry = IF o.maxRetry # None THEN o.maxRetry[1] ELSE 0,
        !.needRetry = IF o.needRetry # None THEN o.needRetry[1] ELSE FALSE,
        !.retryDelay = IF o.retryDelay # None THEN o.retryDelay[1] ELSE 0],
     err |-> NoErr]

\* WithRetry: each field is assigned only when its pointer is not nil.
WithRetry(b, o) ==
    [ba |-> [b EXCEPT
        !.maxRetry = IF o.maxRetry # None THEN o.maxRetry[1] ELSE @,
        !.needRetry = IF o.needRetry # None THEN o.needRetry[1] ELSE @,
        !.retryDelay = IF o.retryDelay # None THEN o.retryDelay[1] ELSE @],
     err |-> NoErr]
WithMaxRetry(b, o) == [ba |-> [b EXCEPT !.maxRetry = o.maxRetry[1]], err |-> NoErr]
WithNeedRetry(b, o) == [ba |-> [b EXCEPT !.needRetry = o.needRetry[1]], err |-> NoErr]
WithRetryDelay(b, o) == [ba |-> [b EXCEPT !.retryDelay = o.retryDelay[1]], err |-> NoErr]

\* ba.statusCodeHandlers[code] = h: a write into a nil map panics.
WithStatusCodeHandler(b, o) ==
    IF b.statusCodeHandlers = None THEN [ba |-> b, err |-> Panic]
    ELSE [ba |-> [b EXCEPT !.statusCodeHandlers =
                    Some([c \in (DOMAIN @[1]) \cup {o.code} |->
                            IF c = o.code THEN o.veto ELSE @[1][c]])],
          err |-> NoErr]

\* opt(ba): the option applied to the action.
ApplyOption(b, o) ==
    CASE o.op = "WithHeaders" -> WithHeaders(b, o)
      [] o.op = "WithAppendHeaders" -> WithAppendHeaders(b, o)
      [] o.op = "WithPrependHeaders" -> WithPrependHeaders(b, o)
      [] o.op = "WithProxyURL" -> WithProxyURL(b, o)
      [] o.op = "WithBodyString" -> WithBodyString(b, o)
      [] o.op = "WithBodyBytes" -> WithBodyBytes(b, o)
      [] o.op = "WithRetry" -> WithRetry(b, o)
      [] o.op = "WithMaxRetry" -> WithMaxRetry(b, o)
      [] o.op = "WithNeedRetry" -> WithNeedRetry(b, o)
      [] o.op = "WithRetryDelay" -> WithRetryDelay(b, o)
      [] o.op = "WithStatusCodeHandler" -> WithStatusCodeHandler(b, o)

\* ------------------------------------------------------------ the action
\* NewBaseAction: method, url, client and an empty header map are set; every
\* other field has its zero value (the handler table is a nil map).
NewBaseAction(client, method, url) ==
    [method |-> method, url |-> url, client |-> client,
     headers |-> NoHeaders,
     request |-> None, response |-> None,
     requestBodyBuffer |-> None, responseBodyBuffer |-> None,
     statusCodeHandlers |-> None,
     tryCount |-> 0, maxRetry |-> 0, needRetry |-> FALSE, retryDelay |-> 0,
     err |-> NoErr]

\* prepareRequest: http.NewRequest fails on a URL it cannot parse; the new
\* request object (identity id) carries the method, URL, body and headers.
prepareRequest(method, url, bodyBytes, headers, id) ==
    IF url = BadURL THEN [req |-> None, err |-> ErrNewRequest]
    ELSE [req |-> Some([id |-> id, method |-> method, url |-> url,
                        body |-> bodyBytes, headers |-> headers]),
          err |-> NoErr]

\* An options loop that returns the first error but applies every option.
RECURSIVE applyOptsKeepGoing(_, _, _)
applyOptsKeepGoing(b, opts, i) ==
    IF i > Len(opts) THEN [ba |-> b, err |-> NoErr]
    ELSE LET r == ApplyOption(b, opts[i])
             rest == applyOptsKeepGoing(r.ba, opts, i + 1)
         IN  IF r.err # NoErr THEN [ba |-> rest.ba, err |-> r.err] ELSE rest

\* The options loop of Setup: stops at the first option that fails.
RECURSIVE applyOpts(_, _, _)
applyOpts(b, opts, i) ==
    IF i > Len(opts) THEN [ba |-> b, err |-> NoErr]
    ELSE LET r == ApplyOption(b, opts[i])
         IN  IF r.err # NoErr THEN r ELSE applyOpts(r.ba, opts, i + 1)

\* A Setup that applies the options and builds nothing.
buildRequestSkipped(b, id) == [ba |-> b, err |-> NoErr]

\* A Setup that builds a new request each time.
buildRequestAlways(b, id) ==
    LET p == prepareRequest(b.method, b.url, b.requestBodyBuffer, b.headers, id)
    IN  IF p.err # NoErr THEN [ba |-> [b EXCEPT !.err = p.err], err |-> p.err]
        ELSE [ba |-> [b EXCEPT !.err = p.err, !.request = p.req], err |-> NoErr]

\* The request-building half of Setup.
buildRequest(b, id) ==
    IF b.request = None THEN
        LET p == prepareRequest(b.method, b.url, b.requestBodyBuffer, b.headers, id)
        IN  IF p.err # NoErr THEN [ba |-> [b EXCEPT !.err = p.err], err |-> p.err]
            ELSE [ba |-> [b EXCEPT !.err = p.err, !.request = p.req], err |-> NoErr]
    ELSE [ba |-> b, err |-> NoErr]

\* The identity of the next request object: one never used before.
nextId(b) == IF b.request = None THEN 1 ELSE b.request[1].id + 1

\* Setup(opts...)
Setup(b, opts) ==
    LET r == applyOpts(b, opts, 1)
    IN  IF r.err # NoErr THEN r ELSE buildRequest(r.ba, nextId(r.ba))

\* --------------------------------------------------------- the transport
\* What client.Do and the body read of one attempt can give: a transport
\* error, or a response whose body is read in full or fails to be read.
Resp(status, ctype, body) ==
    [terr |-> FALSE, rerr |-> FALSE, status |-> status, ctype |-> ctype, body |-> body]
TransportFailure == [Resp(0, ContentTypeText, BodyEmpty) EXCEPT !.terr = TRUE]
ReadFailure == [Resp(200, ContentTypeText, BodyEmpty) EXCEPT !.rerr = TRUE]

\* The responses the retry and repeat protocol tells apart.
Outcomes ==
    { TransportFailure, ReadFailure,
      Resp(200, ContentTypeJSON, BodyOther),
      Resp(StatusTooManyRequests, ContentTypeText, BodyEmpty),
      Resp(StatusBadRequest, ContentTypeText, BodyEmpty),
      Resp(500, ContentTypeText, BodyGarbage) }

\* The responses the classification tells apart.
ClassifyOutcomes ==
    { Resp(200, ContentTypeJSON, BodyOther),
      Resp(204, ContentTypeText, BodyEmpty),
      Resp(299, ContentTypeText, BodyGarbage),
      Resp(300, ContentTypeText, BodyGarbage),
      Resp(StatusTooManyRequests, ContentTypeText, BodyEmpty),
      Resp(500, ContentTypeText, BodyGarbage),
      Resp(StatusBadRequest, ContentTypeJSON, BodyCode8),
      Resp(StatusBadRequest, ContentTypeJSON, BodyCode56),
      Resp(StatusBadRequest, ContentTypeJSON, BodyMessage),
      Resp(StatusBadRequest, ContentTypeJSON, BodyOther),
      Resp(StatusBadRequest, ContentTypeJSON, BodyGarbage),
      Resp(StatusBadRequest, ContentTypeJSON, BodyEmpty),
      Resp(StatusBadRequest, ContentTypeText, BodyEmpty),
      Resp(StatusBadRequest, ContentTypeText, BodyCode8) }

\* The *http.Response client.Do returns.
Response(out) ==
    [status |-> out.status, ctype |-> out.ctype, body |-> out.body]

\* The status handler's verdict for the received status, if one is registered.
handlerVeto(b, status) ==
    /\ b.statusCodeHandlers # None
    /\ status \in DOMAIN b.statusCodeHandlers[1]
    /\ b.statusCodeHandlers[1][status]

\* A dispatch attempt that counts itself only once the transport answered.
doCountsAnswered(b, out) ==
    LET b1 == [b EXCEPT !.tryCount = @ + 1]
        resp == Response(out)
        b2 == [b1 EXCEPT !.err = NoErr, !.response = Some(resp)]
        respBody == ReadAll(resp)
        herr == handleResponse(resp, respBody)
        b3 == [b2 EXCEPT !.err = herr]
    IN  IF b.request = None THEN [ba |-> b, err |-> ErrEmptyRequest]
        ELSE IF out.terr THEN [ba |-> [b EXCEPT !.err = ErrTransport], err |-> ErrTransport]
        ELSE IF out.rerr THEN [ba |-> b2, err |-> ErrReadAll]
        ELSE IF handlerVeto(b2, resp.status) THEN [ba |-> b2, err |-> ErrStatusHandler]
        ELSE IF herr # NoErr THEN
            [ba |-> b3,
             err |-> IF resp.status = StatusTooManyRequests THEN ErrTooManyRequests ELSE herr]
        ELSE [ba |-> [b3 EXCEPT !.responseBodyBuffer = respBody], err |-> NoErr]

\* A dispatch attempt that stores errors but never clears the stored one.
doKeepsError(b, out) ==
    LET b1 == [b EXCEPT !.tryCount = @ + 1]
        resp == Response(out)
        b2 == [b1 EXCEPT !.response = Some(resp)]
        respBody == ReadAll(resp)
        herr == handleResponse(resp, respBody)
    IN  IF b1.request = None THEN [ba |-> b1, err |-> ErrEmptyRequest]
        ELSE IF out.terr THEN [ba |-> [b1 EXCEPT !.err = ErrTransport], err |-> ErrTransport]
        ELSE IF out.rerr THEN [ba |-> b2, err |-> ErrReadAll]
        ELSE IF handlerVeto(b2, resp.status) THEN [ba |-> b2, err |-> ErrStatusHandler]
        ELSE IF herr # NoErr THEN
            [ba |-> [b2 EXCEPT !.err = herr],
             err |-> IF resp.status = StatusTooManyRequests THEN ErrTooManyRequests ELSE herr]
        ELSE [ba |-> [b2 EXCEPT !.responseBodyBuffer = respBody], err |-> NoErr]

\* do(): one dispatch attempt, given what the transport returns for it.
do(b, out) ==
    LET b1 == [b EXCEPT !.tryCount = @ + 1]
        resp == Response(out)
        b2 == [b1 EXCEPT !.err = NoErr, !.response = Some(resp)]
        respBody == ReadAll(resp)
        herr == handleResponse(resp, respBody)
        b3 == [b2 EXCEPT !.err = herr]
    IN  IF b1.request = None THEN [ba |-> b1, err |-> ErrEmptyRequest]
        ELSE IF out.terr THEN [ba |-> [b1 EXCEPT !.err = ErrTransport], err |-> ErrTransport]
        ELSE IF out.rerr THEN [ba |-> b2, err |-> ErrReadAll]
        ELSE IF handlerVeto(b2, resp.status) THEN [ba |-> b2, err |-> ErrStatusHandler]
        ELSE IF herr # NoErr THEN
            [ba |-> b3,
             err |-> IF resp.status = StatusTooManyRequests THEN ErrTooManyRequests ELSE herr]
        ELSE [ba |-> [b3 EXCEPT !.responseBodyBuffer = respBody], err |-> NoErr]

\* Repeat(setupAction, opts...): Setup, then one dispatch attempt.
Repeat(b, setupAction, opts, out) ==
    LET s == Setup(b, opts)
    IN  IF s.err # NoErr THEN s ELSE do(s.ba, out)

\* A retry decision that compares the counter even when maxRetry is zero.
retryBeforeUnguarded(b) == b.tryCount <= b.maxRetry

\* A retry decision that allows one attempt more.
retryBeforeOneMore(b) == IF b.maxRetry > 0 THEN b.tryCount <= b.maxRetry + 1 ELSE FALSE

\* The retry decision Do takes before each attempt.
retryBefore(b) == IF b.maxRetry > 0 THEN b.tryCount <= b.maxRetry ELSE FALSE

\* A Result that goes to the response without testing the buffer.
ResultUntested(b, t) ==
    IF b.response = None THEN [err |-> Panic, target |-> t]
    ELSE IF b.response[1].ctype = ContentTypeJSON THEN
        LET u == Unmarshal(IF b.responseBodyBuffer = None THEN BodyEmpty
                           ELSE b.responseBodyBuffer[1])
        IN  IF u.err # NoErr THEN [err |-> u.err, target |-> t]
            ELSE [err |-> NoErr, target |-> u.data]
    ELSE [err |-> NoErr, target |-> t]

\* Result(result): nothing to decode without a buffer; otherwise the stored
\* response's content type is read (a nil response panics) and a JSON body
\* is decoded into the caller's structure.
Result(b, t) ==
    IF b.responseBodyBuffer = None THEN [err |-> NoErr, target |-> t]
    ELSE IF b.response = None THEN [err |-> Panic, target |-> t]
    ELSE IF b.response[1].ctype = ContentTypeJSON THEN
        LET u == Unmarshal(b.responseBodyBuffer[1])
        IN  IF u.err # NoErr THEN [err |-> u.err, target |-> t]
            ELSE [err |-> NoErr, target |-> u.data]
    ELSE [err |-> NoErr, target |-> t]

\* Outcome accessors.
Error(b) == b.err
ResponseBytes(b) == b.responseBodyBuffer

\* ------------------------------------------------------------ the inputs
Opts ==
    { WithMaxRetryOpt(n) : n \in 0..MaxRetryArg } \cup
    { WithNeedRetryOpt(TRUE), WithRetryDelayOpt(1), WithHeadersOpt(HeadersA),
      WithProxyURLOpt, WithStatusCodeHandlerOpt(200, TRUE) }

\* The option lists given to a call: no option, or one.
OptLists == { << >> } \cup { << o >> : o \in Opts }

\* ------------------------------------------------------------- the state
VARIABLES
    ba,         \* the BaseAction
    pc,         \* where the running call stands: idle, doLoop, doWait, doRepeat,
                \* repeatDo, repeatDoForced
    retry,      \* Do's local variable retry
    doErr,      \* Do's local variable err, the result of its latest do()
    call,       \* the public method called last: none, Setup, Do, Repeat, Result
    ret,        \* what the last finished call returned
    calls,      \* Do and Repeat calls made so far
    setups,     \* whether the user has called Setup
    only429,    \* every attempt of the current call received status 429
    repeats,    \* Repeat calls made by the current Do
    target      \* the structure the caller hands to Result

vars == << ba, pc, retry, doErr, call, ret, calls, setups, only429, repeats, target >>

Init ==
    /\ ba \in { NewBaseAction(c, "GET", u) : c \in Transports, u \in URLs }
    /\ pc = "idle"
    /\ retry = FALSE
    /\ doErr = NoErr
    /\ call = "none"
    /\ ret = NoErr
    /\ calls = 0
    /\ setups = FALSE
    /\ only429 = TRUE
    /\ repeats = 0
    /\ target = NoFields

\* Whether the attempts of the current call, this one included, all received 429.
Only429(out) ==
    only429 /\ ~out.terr /\ ~out.rerr /\ out.status = StatusTooManyRequests

\* ba.Setup(opts...)
SetupCall(opts) ==
    /\ pc = "idle"
    /\ LET s == Setup(ba, opts)
       IN  /\ ba' = s.ba
           /\ ret' = s.err
    /\ call' = "Setup"
    /\ setups' = TRUE
    /\ UNCHANGED << pc, retry, doErr, calls, only429, repeats, target >>

\* ba.Do(opts...) up to the retry loop: Setup, and the return on its error.
DoCall(opts) ==
    /\ pc = "idle"
    /\ calls < MaxCalls
    /\ LET s == Setup(ba, opts)
       IN  /\ ba' = s.ba
           /\ IF s.err # NoErr
              THEN pc' = "idle" /\ ret' = s.err
              ELSE pc' = "doLoop" /\ ret' = NoErr
    /\ call' = "Do"
    /\ calls' = calls + 1
    /\ retry' = FALSE
    /\ doErr' = NoErr
    /\ only429' = TRUE
    /\ repeats' = 0
    /\ UNCHANGED << setups, target >>

\* A Do that never goes on to Repeat.
needsRepeatNever(b) == FALSE

\* Does Do go on to Repeat after its loop ended in success?
needsRepeat(b) == b.needRetry

\* A Do that waits before every retry.
needsWaitAlways(b) == TRUE

\* Does Do wait before the next attempt?
needsWait(b) == b.retryDelay > 0

\* One iteration of Do's loop: the retry decision, do(), and what follows.
\* The locals retry and err are dead once Do returns.
DoAttempt(out) ==
    /\ pc = "doLoop"
    /\ LET r == retryBefore(ba)
           d == do(ba, out)
       IN  /\ ba' = d.ba
           /\ IF d.err = NoErr
              THEN /\ retry' = FALSE
                   /\ doErr' = NoErr
                   /\ IF needsRepeat(d.ba)
                      THEN pc' = "doRepeat" /\ UNCHANGED ret
                      ELSE pc' = "idle" /\ ret' = NoErr
              ELSE IF ~r
                   THEN /\ pc' = "idle" /\ ret' = d.err
                        /\ retry' = FALSE /\ doErr' = NoErr
                   ELSE /\ pc' = IF needsWait(d.ba) THEN "doWait" ELSE "doLoop"
                        /\ retry' = r /\ doErr' = d.err
                        /\ UNCHANGED ret
    /\ only429' = Only429(out)
    /\ UNCHANGED << call, calls, setups, repeats, target >>

\* <-time.After(ba.retryDelay)
DoWait ==
    /\ pc = "doWait"
    /\ pc' = "doLoop"
    /\ UNCHANGED << ba, retry, doErr, call, ret, calls, setups, only429, repeats, target >>

\* return ba.Repeat(false) at the end of Do.
DoRepeat(out) ==
    /\ pc = "doRepeat"
    /\ LET r == Repeat(ba, FALSE, << >>, out)
       IN  /\ ba' = r.ba
           /\ ret' = r.err
    /\ pc' = "idle"
    /\ repeats' = repeats + 1
    /\ only429' = Only429(out)
    /\ UNCHANGED << retry, doErr, call, calls, setups, target >>

\* ba.Repeat(setupAction, opts...) called by the user, up to its do():
\* Setup, and the return on its error.
RepeatCall(setupAction, opts) ==
    /\ pc = "idle"
    /\ calls < MaxCalls
    /\ LET s == Setup(ba, opts)
       IN  /\ ba' = s.ba
           /\ IF s.err # NoErr
              THEN pc' = "idle" /\ ret' = s.err
              ELSE /\ pc' = IF setupAction THEN "repeatDoForced" ELSE "repeatDo"
                   /\ ret' = NoErr
    /\ call' = "Repeat"
    /\ calls' = calls + 1
    /\ only429' = TRUE
    /\ repeats' = 0
    /\ UNCHANGED << retry, doErr, setups, target >>

\* return ba.do() at the end of Repeat.
RepeatDo(out) ==
    /\ pc \in {"repeatDo", "repeatDoForced"}
    /\ LET d == do(ba, out)
       IN  /\ ba' = d.ba
           /\ ret' = d.err
    /\ pc' = "idle"
    /\ only429' = Only429(out)
    /\ UNCHANGED << retry, doErr, call, calls, setups, repeats, target >>

Next ==
    \/ \E opts \in OptLists : SetupCall(opts)
    \/ \E opts \in OptLists : DoCall(opts)
    \/ \E out \in Outcomes : DoAttempt(out)
    \/ DoWait
    \/ \E out \in Outcomes : DoRepeat(out)
    \/ \E f \in BOOLEAN, opts \in OptLists : RepeatCall(f, opts)
    \/ \E out \in Outcomes : RepeatDo(out)

Spec == Init /\ [][Next]_vars

\* Do alone, against every response the classification tells apart.
NextClassify ==
    \/ \E opts \in OptLists : DoCall(opts)
    \/ \E out \in ClassifyOutcomes : DoAttempt(out)
    \/ DoWait
    \/ \E out \in ClassifyOutcomes : DoRepeat(out)

SpecClassify == Init /\ [][NextClassify]_vars

\* ba.Result(&target)
ResultCall ==
    /\ pc = "idle"
    /\ LET r == Result(ba, target)
       IN  /\ ret' = r.err
           /\ target' = r.target
    /\ call' = "Result"
    /\ UNCHANGED << ba, pc, retry, doErr, calls, setups, only429, repeats >>

\* What a dispatch can bring when the result is decoded afterwards: no
\* response, an unread body, JSON that decodes, JSON that does not, a body
\* that is not JSON, an empty body, and statuses that fail.
ResultOutcomes ==
    { TransportFailure, ReadFailure,
      Resp(200, ContentTypeJSON, BodyOther),
      Resp(200, ContentTypeJSON, BodyGarbage),
      Resp(200, ContentTypeText, BodyCode8),
      Resp(204, ContentTypeText, BodyEmpty),
      Resp(StatusTooManyRequests, ContentTypeText, BodyEmpty),
      Resp(500, ContentTypeJSON, BodyOther) }

\* The options of the calls whose result is decoded.
ResultOptLists ==
    { << >>, << WithMaxRetryOpt(1) >>, << WithNeedRetryOpt(TRUE) >> }

\* Do and Repeat with Result called between them.
NextResult ==
    \/ \E opts \in ResultOptLists : DoCall(opts)
    \/ \E out \in ResultOutcomes : DoAttempt(out)
    \/ \E out \in ResultOutcomes : DoRepeat(out)
    \/ \E opts \in ResultOptLists : RepeatCall(TRUE, opts)
    \/ \E out \in ResultOutcomes : RepeatDo(out)
    \/ ResultCall

SpecResult == Init /\ [][NextResult]_vars

\* A call that has started goes on: every transport call returns and every
\* delay elapses.
CallProceeds ==
    \/ \E out \in Outcomes : DoAttempt(out)
    \/ DoWait
    \/ \E out \in Outcomes : DoRepeat(out)
    \/ \E out \in Outcomes : RepeatDo(out)

SpecLive == Init /\ [][Next]_vars /\ WF_vars(CallProceeds)

\* ------------------------------------------------------------ the claims
DoReturned == pc = "idle" /\ call = "Do"
RepeatReturned == pc = "idle" /\ call = "Repeat"

\* Do was the first call of all on a new action and has returned.
FirstDoReturned == DoReturned /\ calls = 1

\* C1: on a fresh action whose every dispatch receives 429, one Do makes
\* exactly maxRetry + 1 attempts and returns ErrTooManyRequests.
C1_RateLimitedAttempts ==
    (FirstDoReturned /\ only429 /\ ba.tryCount > 0) =>
        (ba.tryCount = ba.maxRetry + 1 /\ ret = ErrTooManyRequests)

\* C2: Do dispatches again only after an attempt that ended with the
\* rate-limit error; every other error of an attempt ends Do at once.
C2_OnlyRateLimitRetried ==
    (call = "Do" /\ pc \in {"doLoop", "doWait"} /\ doErr # NoErr) =>
        doErr = ErrTooManyRequests

\* C3: the repeat dispatch of Do, and Repeat called with setupAction = true,
\* build a new request object in place of the one built before.
C3_RepeatBuildsFreshRequest ==
    [][ ( /\ \/ pc = "doRepeat" /\ pc' = "idle"
             \/ pc = "idle" /\ pc' = "repeatDoForced"
          /\ ba.request # None )
        => ( /\ ba'.request # None
             /\ ba'.request[1].id # ba.request[1].id ) ]_vars

C5_LastErrorRetained ==
    ((DoReturned \/ RepeatReturned) /\ ret # NoErr /\ ret # Panic) =>
        Error(ba) = ret

\* C6: the response buffer never holds the body of an earlier attempt while
\* the stored response and error are those of a later one.
C6_BufferOfLatestResponse ==
    ( /\ ba.response # None
      /\ ResponseBytes(ba) # None
      /\ Error(ba) \notin {NoErr, ErrTransport} )
    => ResponseBytes(ba) = Some(ba.response[1].body)

\* C7: a Do given WithStatusCodeHandler(200, h), h returning true, registers
\* the handler and returns the handler-rejected error on a 200 response.
C7_HandlerRejects200 ==
    (DoReturned /\ (ret = Panic \/ ba.statusCodeHandlers # None)) =>
        /\ ret # Panic
        /\ (ba.response # None /\ ba.response[1].status = 200 /\ Error(ba) = NoErr)
              => ret = ErrStatusHandler

\* C8, as claimed: Do on a new action, Setup never called, returns
\* ErrEmptyRequest from its first attempt and sends nothing.
C8_DoWithoutSetupEmptyRequest ==
    (FirstDoReturned /\ ~setups /\ ba.tryCount >= 1) =>
        (ret = ErrEmptyRequest /\ ba.response = None)

\* C8, amended: Do on a new action, Setup never called, runs Setup itself and
\* never returns ErrEmptyRequest: either no request could be set up, and Do
\* returns that error with no attempt made, or the request is built and
\* dispatched.
C8_DoSetsUpRequest ==
    (FirstDoReturned /\ ~setups) =>
        /\ ret # ErrEmptyRequest
        /\ ba.request = None => (ba.tryCount = 0 /\ ret # NoErr)
        /\ ba.request # None => ba.tryCount >= 1

\* Do, the first call on a new action, dispatched a request and got a response.
C8_Witness ==
    FirstDoReturned /\ ~setups /\ ba.tryCount >= 1 /\ ba.response # None

\* The latest attempt received r and Do returned its classification error.
Classified(r) ==
    /\ DoReturned
    /\ ba.response = Some(Response(r))
    /\ ret # NoErr
    /\ ret = Error(ba)

\* C9: a 400 with content type application/json is classified by its JSON
\* body: code 100008 and message "Invalid payment" give ErrInvalidPayment,
\* code 100056 gives ErrNeedEmailAuthorize, any other object BadRequest.
C9_BadRequestJSON ==
    /\ Classified(Resp(StatusBadRequest, ContentTypeJSON, BodyCode8))
          => ret = ErrInvalidPayment
    /\ Classified(Resp(StatusBadRequest, ContentTypeJSON, BodyCode56))
          => ret = ErrNeedEmailAuthorize
    /\ Classified(Resp(StatusBadRequest, ContentTypeJSON, BodyMessage))
          => ret = ErrInvalidPayment
    /\ Classified(Resp(StatusBadRequest, ContentTypeJSON, BodyOther))
          => ret = ErrBadRequest

\* C10: a 400 with a zero-length body makes Do return "BadRequest noBody".
C10_BadRequestNoBody ==
    Classified(Resp(StatusBadRequest, ContentTypeText, BodyEmpty))
        => ret = ErrBadRequestNoBody

\* ------------------------------------------------- the options at length
\* Every header map over two keys and two values.
HeaderKeys == {"Accept", "Token"}
HeaderVals == {"a", "b"}
HeaderMaps == UNION { [K -> HeaderVals] : K \in SUBSET HeaderKeys }

\* The options given in lists: the three header options with maps that
\* clash on a key, retry options that set some fields and leave others,
\* and the one option that can return an error.
OptionInputs ==
    { WithHeadersOpt(HeadersA), WithAppendHeadersOpt(HeadersB),
      WithPrependHeadersOpt(HeadersB),
      WithRetryOpt(Some(1), None, None), WithRetryOpt(Some(2), Some(TRUE), Some(1)),
      WithProxyURLOpt }

RECURSIVE SeqsUpTo(_, _)
SeqsUpTo(S, n) ==
    IF n = 0 THEN { << >> }
    ELSE LET shorter == SeqsUpTo(S, n - 1)
         IN  shorter \cup { Append(q, x) : q \in shorter, x \in S }

\* The option lists given to a call: up to MaxOpts options.
WideOptLists == SeqsUpTo(OptionInputs, MaxOpts)

\* The response every dispatch receives while the options are varied.
OptionOutcomes == { Resp(200, ContentTypeJSON, BodyOther) }

\* The action is built on a client whose transport cannot take a proxy.
InitOptions == Init /\ ba.url = GoodURL /\ ba.client # "*http.Transport"

\* Setup, Do and Repeat given lists of options, every dispatch succeeding.
NextOptions ==
    \/ \E opts \in WideOptLists : SetupCall(opts)
    \/ \E opts \in WideOptLists : DoCall(opts)
    \/ \E out \in OptionOutcomes : DoAttempt(out)
    \/ \E out \in OptionOutcomes : DoRepeat(out)
    \/ \E opts \in WideOptLists : RepeatCall(TRUE, opts)
    \/ \E out \in OptionOutcomes : RepeatDo(out)

SpecOptions == InitOptions /\ [][NextOptions]_vars

\* A step that makes one dispatch attempt, and what its do() returned.
Attempted == ba'.tryCount = ba.tryCount + 1
AttemptResult ==
    IF pc' \in {"doLoop", "doWait"} THEN doErr'
    ELSE IF pc' = "doRepeat" THEN NoErr
    ELSE ret'

\* The attempt of this step received a response and read its body.
ReceivedBody ==
    /\ Attempted
    /\ AttemptResult \notin {ErrEmptyRequest, ErrTransport, ErrReadAll}

\* No status handler is registered for the status.
NoHandlerFor(b, status) ==
    \/ b.statusCodeHandlers = None
    \/ status \notin DOMAIN b.statusCodeHandlers[1]

\* C11: an attempt that receives a status in [200,300) with no handler
\* registered for it returns nil and leaves exactly the received body bytes
\* in the response buffer.
C11_SuccessKeepsBody ==
    [][ ( /\ ReceivedBody
          /\ ba'.response[1].status >= 200
          /\ ba'.response[1].status < 300
          /\ NoHandlerFor(ba', ba'.response[1].status) )
        => ( /\ AttemptResult = NoErr
             /\ ResponseBytes(ba') = Some(ba'.response[1].body) ) ]_vars

\* Do returned nil after a 299, and after a 204 with an empty body, with the
\* received bytes in the buffer.
C11_Witness ==
    /\ DoReturned
    /\ ret = NoErr
    /\ ba.response # None
    /\ ba.response[1].status \in {204, 299}
    /\ ResponseBytes(ba) = Some(ba.response[1].body)


\* C12: for the current header map old and every header map new,
\* WithAppendHeaders(new) leaves the union of the two with new's value on
\* every key of new, WithPrependHeaders(new) the union with old's value on
\* every key of old, and WithHeaders(new) exactly new.
C12_HeaderOptions ==
    \A new \in HeaderMaps :
        LET old == ba.headers
            app == WithAppendHeaders(ba, WithAppendHeadersOpt(new)).ba.headers
            pre == WithPrependHeaders(ba, WithPrependHeadersOpt(new)).ba.headers
            set == WithHeaders(ba, WithHeadersOpt(new)).ba.headers
        IN  /\ DOMAIN app = (DOMAIN old) \cup (DOMAIN new)
            /\ \A k \in DOMAIN app :
                   app[k] = IF k \in DOMAIN new THEN new[k] ELSE old[k]
            /\ DOMAIN pre = (DOMAIN old) \cup (DOMAIN new)
            /\ \A k \in DOMAIN pre :
                   pre[k] = IF k \in DOMAIN old THEN old[k] ELSE new[k]
            /\ DOMAIN set = DOMAIN new
            /\ \A k \in DOMAIN set : set[k] = new[k]

\* Headers left by WithHeaders and then WithPrependHeaders of a map that
\* clashes on Accept: the old value stays on Accept, the new key is added.
C12_Witness ==
    /\ DOMAIN ba.headers = {"Accept", "Token"}
    /\ ba.headers["Accept"] = "a"
    /\ ba.headers["Token"] = "b"
    /\ call = "Setup"

\* The action after the first n options of a list, whatever they returned.
RECURSIVE AfterOptions(_, _, _)
AfterOptions(b, opts, n) ==
    IF n = 0 THEN b ELSE ApplyOption(AfterOptions(b, opts, n - 1), opts[n]).ba

\* What the k-th option of a list returns when the ones before it were applied.
OptionError(b, opts, k) == ApplyOption(AfterOptions(b, opts, k - 1), opts[k]).err

\* The k-th option is the first of the list to return an error.
FirstFailing(b, opts, k) ==
    /\ OptionError(b, opts, k) # NoErr
    /\ \A j \in 1..(k - 1) : OptionError(b, opts, j) = NoErr

\* Setup on a list whose k-th option fails returns that error and leaves the
\* action as the first k options left it, with no request built.
SetupFailsFast ==
    pc = "idle" =>
        \A opts \in WideOptLists : \A k \in 1..Len(opts) :
            FirstFailing(ba, opts, k) =>
                LET s == Setup(ba, opts)
                IN  /\ s.err = OptionError(ba, opts, k)
                    /\ s.ba = ApplyOption(AfterOptions(ba, opts, k - 1), opts[k]).ba
                    /\ s.ba.request = ba.request
                    /\ s.ba.tryCount = ba.tryCount

\* A call that returns an error at once has dispatched nothing and built
\* no request.
FailedCallFrame ==
    (pc = "idle" /\ pc' = "idle" /\ ret' # NoErr) =>
        /\ ba'.tryCount = ba.tryCount
        /\ ba'.request = ba.request
        /\ ba'.response = ba.response

\* The first Do or Repeat of an action: given a list with a failing option,
\* the call returns what Setup returned and goes no further.
FirstCallReturnsSetupError ==
    (pc = "idle" /\ calls = 0 /\ calls' = 1) =>
        \E opts \in WideOptLists :
            /\ ba' = Setup(ba, opts).ba
            /\ IF Setup(ba, opts).err # NoErr
               THEN pc' = "idle" /\ ret' = Setup(ba, opts).err
               ELSE pc' # "idle"

\* C13: when the k-th option given to Setup, Do or Repeat returns an error,
\* the call returns that error, applies no later option, builds no request
\* and makes no dispatch attempt.
C13_OptionsFailFast ==
    /\ []SetupFailsFast
    /\ [][FailedCallFrame /\ FirstCallReturnsSetupError]_vars

\* A first Do whose second option failed: the first option's headers are
\* set, the error is returned, nothing was built or sent.
C13_Witness ==
    /\ call = "Do" /\ calls = 1 /\ ~setups
    /\ pc = "idle" /\ ret = ErrSetupProxy
    /\ ba.headers = HeadersA
    /\ ba.request = None
    /\ ba.tryCount = 0

\* The pointer arguments WithRetry is tried with, nil included.
MaxRetryPtrs == { None } \cup { Some(n) : n \in 0..MaxRetryArg }
NeedRetryPtrs == { None, Some(TRUE), Some(FALSE) }
RetryDelayPtrs == { None, Some(0), Some(1) }

\* Retry options that set one, several or none of the three fields.
RetryInputs ==
    { WithRetryOpt(m, n, d) :
        m \in { None, Some(1), Some(2) }, n \in NeedRetryPtrs, d \in { None, Some(1) } }
    \cup { WithMaxRetryOpt(0), WithNeedRetryOpt(FALSE), WithRetryDelayOpt(0) }

\* The value of a retry field after an option: the option's when it carries
\* one, the prior value otherwise.
Assigned(ptr, prior) == IF ptr # None THEN ptr[1] ELSE prior

\* WithRetry alone: the fields with a pointer take its value, every other
\* field of the action keeps its own.
WithRetryFrame ==
    \A m \in MaxRetryPtrs, n \in NeedRetryPtrs, d \in RetryDelayPtrs :
        LET r == WithRetry(ba, WithRetryOpt(m, n, d))
        IN  /\ r.err = NoErr
            /\ r.ba = [ba EXCEPT !.maxRetry = Assigned(m, ba.maxRetry),
                                 !.needRetry = Assigned(n, ba.needRetry),
                                 !.retryDelay = Assigned(d, ba.retryDelay)]

\* Two retry options in a list: the second one's value stands wherever it
\* carries one, the first one's where only the first does.
LaterRetryOptionWins ==
    \A o1 \in RetryInputs, o2 \in RetryInputs :
        LET r == applyOpts(ba, << o1, o2 >>, 1)
        IN  /\ r.err = NoErr
            /\ r.ba.maxRetry = Assigned(o2.maxRetry, Assigned(o1.maxRetry, ba.maxRetry))
            /\ r.ba.needRetry = Assigned(o2.needRetry, Assigned(o1.needRetry, ba.needRetry))
            /\ r.ba.retryDelay = Assigned(o2.retryDelay, Assigned(o1.retryDelay, ba.retryDelay))

\* C14: WithRetry changes exactly the retry fields whose pointer is not nil,
\* and of two retry options in a list the later one decides a field both set.
C14_WithRetryFrame ==
    pc = "idle" => (WithRetryFrame /\ LaterRetryOptionWins)

\* The fields after WithRetry(2, true, 1) followed by WithRetry(1, nil, nil):
\* the maximum is the later one, flag and delay are the earlier option's.
C14_Witness ==
    /\ pc = "idle" /\ call = "Setup" /\ ret = NoErr
    /\ ba.maxRetry = 1
    /\ ba.needRetry = TRUE
    /\ ba.retryDelay = 1

\* Header and body options of every shape.
TemplateOptions ==
    { WithHeadersOpt(h) : h \in HeaderMaps }
    \cup { WithAppendHeadersOpt(h) : h \in HeaderMaps }
    \cup { WithPrependHeadersOpt(h) : h \in HeaderMaps }
    \cup { WithBodyStringOpt("x"), WithBodyBytesOpt(None), WithBodyBytesOpt(Some("y")) }

\* With a request built, Setup with any header or body option changes the
\* action's headers or body at most, never the request.
SetupKeepsRequest ==
    (pc = "idle" /\ ba.request # None) =>
        \A o \in TemplateOptions :
            LET s == Setup(ba, << o >>)
            IN  s.err = NoErr /\ s.ba.request = ba.request

\* No step of Setup, Do or Repeat replaces or alters a request once built.
RequestKept == (ba.request # None) => (ba'.request = ba.request)

\* C15: a request once built is never changed by a later Setup, whatever
\* options it applies, and stays the same object over all attempts of a Do.
C15_RequestBuiltOnce ==
    /\ []SetupKeepsRequest
    /\ [][RequestKept]_vars

\* A Do about to retry after a failed attempt, its request still the one
\* built before the headers were replaced.
C15_Witness ==
    /\ call = "Do" /\ pc = "doLoop" /\ doErr # NoErr
    /\ ba.tryCount >= 1
    /\ ba.request # None
    /\ ba.request[1].headers # ba.headers

\* An attempt of Do's loop that failed while the retry flag, computed
\* before the attempt, was set: the loop goes round again.
RetriedFailure ==
    /\ pc = "doLoop"
    /\ Attempted
    /\ AttemptResult # NoErr
    /\ retryBefore(ba)

\* C16: in Do's loop a wait follows an attempt exactly when the attempt
\* failed, is retried and the delay is above zero; the wait leads to the next
\* attempt and dispatches nothing; the last attempt of the loop, failed or
\* not, is followed by no wait.
C16_WaitIffDelay ==
    [][ /\ (pc = "doLoop") =>
              /\ (pc' = "doWait") <=> (RetriedFailure /\ ba'.retryDelay > 0)
              /\ (pc' = "doLoop") <=> (RetriedFailure /\ ba'.retryDelay = 0)
        /\ (pc = "doWait") => (pc' = "doLoop" /\ ba' = ba)
        /\ (pc' = "doWait") => (pc = "doLoop")
      ]_vars

\* Do waiting between a failed attempt and its retry.
C16_Witness ==
    /\ call = "Do" /\ pc = "doWait"
    /\ doErr # NoErr
    /\ ba.retryDelay > 0
    /\ ba.tryCount >= 1

\* An attempt of Do's loop made with maxRetry zero ends the loop: Do returns
\* or goes on to its repeat, and a stored failure is the value returned.
SingleAttemptStep ==
    (pc = "doLoop" /\ ba.maxRetry = 0) =>
        /\ Attempted
        /\ pc' \in {"idle", "doRepeat"}
        /\ (ba'.err # NoErr) => (pc' = "idle" /\ ret' = ba'.err)
        /\ (AttemptResult # NoErr) => (pc' = "idle" /\ ret' = AttemptResult)

\* The first Do of an action with maxRetry zero: one attempt in the loop, one
\* more only as the repeat, never a wait.
SingleAttemptCount ==
    (call = "Do" /\ calls = 1 /\ ba.maxRetry = 0) =>
        /\ pc # "doWait"
        /\ ba.tryCount <= 1 + repeats
        /\ (pc = "doLoop") => (ba.tryCount = 0)

\* C17: with maxRetry zero Do's loop makes exactly one attempt; any failure,
\* 429 included, is returned at once without retry and without a wait.
C17_NoRetryAtZero ==
    /\ []SingleAttemptCount
    /\ [][SingleAttemptStep]_vars

\* A first Do with maxRetry zero and a delay set that received 429: one
\* attempt, the rate-limit error returned.
C17_Witness ==
    /\ DoReturned /\ calls = 1
    /\ ba.maxRetry = 0
    /\ ba.retryDelay > 0
    /\ ret = ErrTooManyRequests
    /\ ba.tryCount = 1

\* C18: the repeat dispatch of Do follows the retry protocol of the loop, so
\* Do returns the rate-limit error from its repeat dispatch only once the
\* attempt counter has passed maxRetry.
C18_RepeatRetries ==
    (DoReturned /\ repeats = 1 /\ ret = ErrTooManyRequests /\ ba.maxRetry > 0) =>
        ba.tryCount > ba.maxRetry

\* C19: whenever Do returns nil, Error() returns nil afterwards, also when
\* earlier attempts of that Do failed and stored their error.
C19_NilDoClearsError ==
    (DoReturned /\ ret = NoErr) => Error(ba) = NoErr

\* A first Do that returned nil from its loop on the second attempt or
\* later: the attempts before it failed.
C19_Witness ==
    /\ FirstDoReturned /\ ret = NoErr
    /\ repeats = 0
    /\ ba.tryCount >= 2
    /\ Error(ba) = NoErr

\* The first Do of an action: at most maxRetry + 2 attempts in its loop and
\* at most one repeat dispatch.
AttemptsBounded ==
    (call = "Do" /\ calls = 1) =>
        /\ repeats <= 1
        /\ ba.tryCount - repeats <= ba.maxRetry + 2

\* C20: every Do returns, whatever the responses and the needs-repeat flag,
\* after at most maxRetry + 2 attempts in its loop and one repeat dispatch.
C20_DoTerminates ==
    /\ []AttemptsBounded
    /\ (call = "Do" /\ pc # "idle") ~> (call = "Do" /\ pc = "idle")

\* A first Do with maxRetry 1 that used every attempt of its loop, the last
\* one succeeding, and then made its repeat dispatch.
C20_Witness ==
    /\ FirstDoReturned
    /\ ba.maxRetry = 1
    /\ repeats = 1
    /\ ba.tryCount = 4

\* The steps that run do(): an attempt of Do's loop, Do's repeat dispatch
\* and the dispatch of Repeat.
Dispatching == pc \in {"doLoop", "doRepeat", "repeatDo", "repeatDoForced"}

\* Before the first Do or Repeat the counter is 0; do() on an action without
\* a request returns EmptyRequest and has counted the attempt all the same.
CounterStartsAndCountsEmpty ==
    /\ (calls = 0) => (ba.tryCount = 0)
    /\ (pc = "idle") =>
          \A out \in Outcomes :
              LET r == do([ba EXCEPT !.request = None], out)
              IN  r.err = ErrEmptyRequest /\ r.ba.tryCount = ba.tryCount + 1

\* Every dispatch step adds exactly one, whatever its outcome; no other step
\* changes the counter.
CounterStep ==
    ba'.tryCount = ba.tryCount + (IF Dispatching THEN 1 ELSE 0)

\* An attempt of Do's loop is retried only while the counter of the whole
\* lifetime, read before the attempt, is within maxRetry; beyond it the
\* failure is returned, whichever call made the earlier attempts.
LifetimeCountDecides ==
    (pc = "doLoop") =>
        /\ (pc' \in {"doLoop", "doWait"}) =>
              (ba.maxRetry > 0 /\ ba.tryCount <= ba.maxRetry)
        /\ (AttemptResult # NoErr /\ ba.tryCount > ba.maxRetry) =>
              (pc' = "idle" /\ ret' = AttemptResult)

\* C21: the attempt counter starts at 0, grows by exactly one with every
\* dispatch attempt, failed ones included, and is never reset or decreased,
\* so the attempts of earlier calls count against a later Do's retries.
C21_LifetimeCounter ==
    /\ []CounterStartsAndCountsEmpty
    /\ [][CounterStep /\ LifetimeCountDecides]_vars

\* A second Do with maxRetry 1 whose failed attempt was returned at once:
\* the earlier call had used up the count.
C21_Witness ==
    /\ DoReturned /\ calls = 2
    /\ repeats = 0
    /\ ret = ErrTooManyRequests
    /\ ba.maxRetry = 1
    /\ ba.tryCount = 4

\* A buffer is never held without a stored response, and Result, called
\* between calls, never reads a nil response.
BufferHasResponse ==
    /\ (ba.responseBodyBuffer # None) => (ba.response # None)
    /\ (pc = "idle") => (Result(ba, target).err # Panic)

\* The buffer is first set by a dispatch that succeeded and by nothing
\* else, so an empty buffer means no dispatch has succeeded yet.
BufferOnlyBySuccess ==
    /\ (Attempted /\ AttemptResult = NoErr) => (ba'.responseBodyBuffer # None)
    /\ (ba.responseBodyBuffer = None /\ ba'.responseBodyBuffer # None) =>
          (Attempted /\ AttemptResult = NoErr)

\* Result called with no successful dispatch behind it returns nil and
\* leaves the caller's structure and the action as they were.
ResultWithoutBuffer ==
    (pc = "idle" /\ call' = "Result" /\ ba.responseBodyBuffer = None) =>
        /\ ret' = NoErr
        /\ target' = target
        /\ ba' = ba

\* C22: a response buffer is never held without a stored response, so
\* Result never dereferences a nil response; called before any dispatch or
\* after only failed ones it returns nil and leaves the target untouched.
C22_ResultSafe ==
    /\ []BufferHasResponse
    /\ [][BufferOnlyBySuccess /\ ResultWithoutBuffer]_vars

\* Result has returned nil after a dispatch that failed with a JSON
\* response stored: no buffer, the structure as the caller passed it.
C22_Witness ==
    /\ call = "Result" /\ ret = NoErr
    /\ ba.tryCount >= 1
    /\ ba.responseBodyBuffer = None
    /\ ba.response # None
    /\ ba.response[1].ctype = ContentTypeJSON
    /\ target = NoFields
====
